---- MODULE Spec2Model ----
(***************************************************************************)
(* A model of the Music cog (src/music.py): the before-invoke voice check, *)
(* the command handlers, the voice-client adapter and the lyrics lookup.   *)
(*                                                                         *)
(* Strings the code takes apart (queries) are sequences of one-character   *)
(* strings; a title is the sequence of words str.split() yields.  Ids      *)
(* (channels, tracks, guilds) are positive integers and None is 0.         *)
(* The audio-node client (lavalink) and the bot framework (discord.py) are *)
(* external: their calls are modelled at the place the cog calls them, by  *)
(* their documented effect, and their answers are inputs drawn with \E.    *)
(***************************************************************************)
EXTENDS Integers, Sequences, FiniteSets, TLC

VARIABLES
    channel_id,     \* guild -> player.channel_id (None when not connected)
    voice_client,   \* guild -> channel of guild.voice_client (None: no client)
    queue,          \* guild -> player.queue
    current,        \* guild -> player.current
    shuffle,        \* guild -> player.shuffle
    repeat,         \* guild -> player.repeat
    gateway,        \* guild -> voice events sent by Discord, not yet delivered
    waiting,        \* guild -> the search_music invocation waiting in wait_for
    spotify,        \* module global `spotify`
    lyricstitle,    \* module global `lyricstitle`
    spotifylyrics,  \* module global `spotifylyrics`
    recorded,       \* guild -> what the guild's last play / playuser stored
    last,           \* the handler that ran in the last step, and what it did
    env             \* the users and services around the bot (fixed in a run)

vars == <<channel_id, voice_client, queue, current, shuffle, repeat, gateway,
          waiting, spotify, lyricstitle, spotifylyrics, recorded, last, env>>

\* ------------------------------------------------------------------ bounds

MaxQueue == 2

None == 0
AllGuilds == {1, 2}
Channels == {1, 2}
Tracks == {1, 2}

\* ----------------------------------------------------------------- strings

Chars(s) == {s[i] : i \in 1..Len(s)}

RECURSIVE LStrip(_, _)
LStrip(s, cs) ==
    IF s # <<>> /\ Head(s) \in cs THEN LStrip(Tail(s), cs) ELSE s

RECURSIVE RStrip(_, _)
RStrip(s, cs) ==
    IF s # <<>> /\ s[Len(s)] \in cs THEN RStrip(SubSeq(s, 1, Len(s) - 1), cs) ELSE s

\* str.strip(chars): drops leading and trailing characters that are in chars
Strip(s, cs) == RStrip(LStrip(s, cs), cs)

IsPrefix(p, s) == Len(p) <= Len(s) /\ SubSeq(s, 1, Len(p)) = p

YTSEARCH == <<"y", "t", "s", "e", "a", "r", "c", "h", ":">>
HTTP == <<"h", "t", "t", "p", ":", "/", "/">>
HTTPS == <<"h", "t", "t", "p", "s", ":", "/", "/">>
SPACE == <<" ">>

\* url_rx = re.compile(r'https?://(?:www\.)?.+'), used with .match
url_rx_match(q) ==
    \E p \in {HTTP, HTTPS} : IsPrefix(p, q) /\ Len(q) > Len(p)

\* the string a global holds before its first assignment
Unset == <<"<unset>">>

\* ------------------------------------------------------------------ inputs

\* ctx.author.voice.channel: None (author in no voice channel) or a channel
VoiceStates == {None} \cup Channels

\* ctx.author.voice.channel.permissions_for(ctx.me)
Permissions == [connect : BOOLEAN, speak : BOOLEAN]

\* track["info"]["title"].split() of the tracks the audio node knows
Title(t) ==
    IF t = 1
    THEN <<"One", "Two", "Three", "Four", "Official", "Five", "Six", "Seven", "(Official", "Video)">>
    ELSE <<"Song", "Official", "Video">>

\* what player.node.get_tracks(query) answers; NoResult is None
NoResult == [loadType |-> "<None>", tracks |-> <<>>]
Results ==
    { NoResult,
      [loadType |-> "NO_MATCHES", tracks |-> <<>>],
      [loadType |-> "SEARCH_RESULT", tracks |-> <<1, 2>>],
      [loadType |-> "PLAYLIST_LOADED", tracks |-> <<1, 2>>] }

\* the text a user gives to play: "<yes>", "http://a"
Queries ==
    { <<"<", "y", "e", "s", ">">>,
      HTTP \o <<"a">> }

\* what the Spotify lookups of play do: sp.track finds a track; it fails and
\* sp.playlist_items with the loop over 50 items succeeds; the loop fails
\* after it assigned query at least once; both fail before assigning query
SpOutcomes == {"track", "playlist", "playlist_partial", "none"}
SpName == <<"s", "o">>
SpArtist == <<"x">>

\* member.activities of playuser's argument
Game == [spotify |-> FALSE, title |-> <<>>, artist |-> <<>>]
Listening == [spotify |-> TRUE, title |-> <<"h", "e", "y">>, artist |-> <<"b">>]
ActivityLists == { <<>>, <<Game>>, <<Listening>>, <<Game, Listening>> }

\* --------------------------------------------------------------- the player

\* the fields of guild g's player and voice connection
P(g) ==
    [ channel_id |-> channel_id[g], voice_client |-> voice_client[g],
      queue |-> queue[g], current |-> current[g], gateway |-> gateway[g] ]

Set(g, p) ==
    /\ channel_id' = [channel_id EXCEPT ![g] = p.channel_id]
    /\ voice_client' = [voice_client EXCEPT ![g] = p.voice_client]
    /\ queue' = [queue EXCEPT ![g] = p.queue]
    /\ current' = [current EXCEPT ![g] = p.current]
    /\ gateway' = [gateway EXCEPT ![g] = p.gateway]

\* lavalink DefaultPlayer.is_connected / is_playing
is_connected(p) == p.channel_id # None
is_playing(p) == is_connected(p) /\ p.current # None

RemoveAt(q, i) == SubSeq(q, 1, i - 1) \o SubSeq(q, i + 1, Len(q))

\* the events Discord sends after guild.change_voice_state(channel=c)
StateEvent(c) == [kind |-> "state", data |-> [channel_id |-> c, endpoint |-> ""]]
ServerEvent == [kind |-> "server", data |-> [channel_id |-> None, endpoint |-> "eu"]]

\* channel.connect(cls=LavalinkVoiceClient): registers the voice client and
\* runs LavalinkVoiceClient.connect, which asks Discord for the voice state
connect(p, c) ==
    [p EXCEPT !.voice_client = c,
              !.gateway = p.gateway \o <<StateEvent(c), ServerEvent>>]

\* LavalinkVoiceClient.disconnect(force): cleanup() drops the voice client,
\* so events still in flight are no longer delivered
disconnect(p, force) ==
    IF ~force /\ ~is_connected(p) THEN p
    ELSE [p EXCEPT !.channel_id = None, !.voice_client = None, !.gateway = <<>>]

\* track_hook on a QueueEndEvent: guild.voice_client.disconnect(force=True);
\* without a voice client the hook raises and changes nothing
track_hook(p) ==
    IF p.voice_client = None THEN p ELSE disconnect(p, TRUE)

\* player.play() without a track: the next track of the queue becomes the
\* current one (any track when shuffling); on an empty queue the player
\* stops and the QueueEndEvent reaches track_hook
player_play(p, rep, shuf) ==
    LET q == IF rep /\ p.current # None THEN Append(p.queue, p.current) ELSE p.queue
    IN  IF q = <<>>
        THEN {track_hook([p EXCEPT !.queue = <<>>, !.current = None])}
        ELSE {[p EXCEPT !.queue = RemoveAt(q, i), !.current = q[i]] :
                  i \in IF shuf THEN 1..Len(q) ELSE {1}}

RECURSIVE add_all(_, _)
add_all(q, ts) == IF ts = <<>> THEN q ELSE add_all(Append(q, Head(ts)), Tail(ts))

\* enqueue with the is_playing test lost: play() after every add
enqueue_always_plays(p, ts, rep, shuf) ==
    player_play([p EXCEPT !.queue = add_all(p.queue, ts)], rep, shuf)

\* the tail of play, playuser and search_music: player.add(...) for each
\* chosen track, then `if not player.is_playing: await player.play()`
enqueue(p, ts, rep, shuf) ==
    LET p1 == [p EXCEPT !.queue = add_all(p.queue, ts)]
    IN  IF ~is_playing(p1) THEN player_play(p1, rep, shuf) ELSE {p1}

\* ------------------------------------------------------- the before-invoke

NoError == ""
JoinFirst == "Join a voicechannel first."
NotConnected == "Not connected."
\* (the message marks CONNECT and SPEAK with backquotes)
NeedPermissions == "I need the CONNECT and SPEAK permissions."
WrongChannel == "You need to be in my voicechannel."
AlreadyConnected == "ClientException: Already connected to a voice channel."

\* ctx.command.name of each command of the cog
CommandNames ==
    { "join", "play", "playuser", "Search music", "pause", "resume", "volume",
      "loop", "unloop", "current", "skip", "queue", "remove", "shuffle",
      "lyrics", "lyricsuser", "disconnect" }

should_connect(name) == name \in {"play", "search_music", "playuser", "join"}

\* ensure_voice without the comparison of the two channels
ensure_voice_any_channel(p, name, voice, perm) ==
    IF voice = None THEN [err |-> JoinFirst, connect |-> None]
    ELSE IF ~is_connected(p)
    THEN IF ~should_connect(name) THEN [err |-> NotConnected, connect |-> None]
         ELSE IF ~perm.connect \/ ~perm.speak
         THEN [err |-> NeedPermissions, connect |-> None]
         ELSE IF p.voice_client # None
         THEN [err |-> AlreadyConnected, connect |-> None]
         ELSE [err |-> NoError, connect |-> voice]
    ELSE [err |-> NoError, connect |-> None]

\* ensure_voice looking at the connection before the voice state of the author
ensure_voice_connection_first(p, name, voice, perm) ==
    IF ~is_connected(p)
    THEN IF ~should_connect(name) THEN [err |-> NotConnected, connect |-> None]
         ELSE IF voice = None THEN [err |-> JoinFirst, connect |-> None]
         ELSE IF ~perm.connect \/ ~perm.speak
         THEN [err |-> NeedPermissions, connect |-> None]
         ELSE IF p.voice_client # None
         THEN [err |-> AlreadyConnected, connect |-> None]
         ELSE [err |-> NoError, connect |-> voice]
    ELSE IF voice = None THEN [err |-> JoinFirst, connect |-> None]
    ELSE IF p.channel_id # voice THEN [err |-> WrongChannel, connect |-> None]
         ELSE [err |-> NoError, connect |-> None]

\* ensure_voice: the error it raises (NoError: none) and the channel it
\* connects to (None: no connect issued)
ensure_voice(p, name, voice, perm) ==
    IF voice = None THEN [err |-> JoinFirst, connect |-> None]
    ELSE IF ~is_connected(p)
    THEN IF ~should_connect(name) THEN [err |-> NotConnected, connect |-> None]
         ELSE IF ~perm.connect \/ ~perm.speak
         THEN [err |-> NeedPermissions, connect |-> None]
         ELSE IF p.voice_client # None
         THEN [err |-> AlreadyConnected, connect |-> None]
         ELSE [err |-> NoError, connect |-> voice]
    ELSE IF p.channel_id # voice THEN [err |-> WrongChannel, connect |-> None]
         ELSE [err |-> NoError, connect |-> None]

\* the player once the check has passed
checked(p, ev) == IF ev.connect # None THEN connect(p, ev.connect) ELSE p

\* cog_command_error: sends error.original of a CommandInvokeError, which is
\* what ensure_voice raises and what wraps an exception of a command body
cog_command_error(err) ==
    IF err = AlreadyConnected THEN <<>> ELSE <<err>>

\* the record of the step: handler, guild, the
\* voice channel of the author, whether the command body ran, the messages sent,
\* the calls of voice_update_handler and the lyrics searches made
\* (arg: the song given to lyrics, or the answer of the audio node to the
\* get_tracks of play and playuser)
Did(cmd, g, voice, ran, replies, calls, searches) ==
    [ cmd |-> cmd, guild |-> g, voice |-> voice, ran |-> ran, arg |-> <<>>,
      replies |-> replies, calls |-> calls, searches |-> searches ]

UNCHANGED_globals == UNCHANGED <<spotify, lyricstitle, spotifylyrics, recorded>>
UNCHANGED_modes == UNCHANGED <<shuffle, repeat, waiting>>

\* the check raised: the body does not run, the error handler replies
rejected(name, g, voice, ev) ==
    /\ Set(g, P(g))
    /\ UNCHANGED_globals
    /\ UNCHANGED_modes
    /\ last' = Did(name, g, voice, FALSE, cog_command_error(ev.err), <<>>, <<>>)

\* ----------------------------------------------------------------- startup

NothingRecorded == [mode |-> "unset", lyricstitle |-> Unset, spotifylyrics |-> Unset]
NotWaiting == [active |-> FALSE, tracks |-> <<>>]

\* the bot after setup(bot): no player, no voice client, the globals unset
Started ==
    /\ channel_id = [g \in AllGuilds |-> None]
    /\ voice_client = [g \in AllGuilds |-> None]
    /\ queue = [g \in AllGuilds |-> <<>>]
    /\ current = [g \in AllGuilds |-> None]
    /\ shuffle = [g \in AllGuilds |-> FALSE]
    /\ repeat = [g \in AllGuilds |-> FALSE]
    /\ gateway = [g \in AllGuilds |-> <<>>]
    /\ waiting = [g \in AllGuilds |-> NotWaiting]
    /\ spotify = "unset"
    /\ lyricstitle = Unset
    /\ spotifylyrics = Unset
    /\ recorded = [g \in AllGuilds |-> NothingRecorded]
    /\ last = Did("setup", None, None, FALSE, <<>>, <<>>, <<>>)

\* ------------------------------------------------------ commands in a guild

\* guild g is one whose users reach the bot
serves(g) == g \in env.guilds /\ UNCHANGED env

\* cog_before_invoke in a guild (guild_check holds), then the command body:
\* Body(p) is the body run on the player the check leaves
invoke(name, g, voice, Body(_)) ==
    \E ev \in {ensure_voice(P(g), name, voice, perm) : perm \in Permissions} :
        IF ev.err # NoError THEN rejected(name, g, voice, ev)
        ELSE Body(checked(P(g), ev))

\* a body that changes no player field: it only answers
answers(name, g, voice, p, replies) ==
    /\ Set(g, p)
    /\ UNCHANGED_globals
    /\ UNCHANGED_modes
    /\ last' = Did(name, g, voice, TRUE, replies, <<>>, <<>>)

join(g) ==
    /\ serves(g)
    /\ \E voice \in env.voices :
        invoke("join", g, voice,
               LAMBDA p : answers("join", g, voice, p, <<>>))

\* set_pause and set_volume act on the audio node only; the cog reads
\* neither back except to echo the volume
pause(g) ==
    /\ serves(g)
    /\ \E voice \in env.voices :
        invoke("pause", g, voice,
               LAMBDA p : answers("pause", g, voice, p, <<>>))

resume(g) ==
    /\ serves(g)
    /\ \E voice \in env.voices :
        invoke("resume", g, voice,
               LAMBDA p : answers("resume", g, voice, p, <<>>))

volume(g) ==
    /\ serves(g)
    /\ \E voice \in env.voices :
        invoke("volume", g, voice,
               LAMBDA p : answers("volume", g, voice, p, <<"Set volume">>))

loop(g) ==
    /\ serves(g)
    /\ \E voice \in env.voices :
        invoke("loop", g, voice,
               LAMBDA p :
                   /\ Set(g, p)
                   /\ repeat' = [repeat EXCEPT ![g] = TRUE]
                   /\ UNCHANGED <<shuffle, waiting>>
                   /\ UNCHANGED_globals
                   /\ last' = Did("loop", g, voice, TRUE, <<>>, <<>>, <<>>))

unloop(g) ==
    /\ serves(g)
    /\ \E voice \in env.voices :
        invoke("unloop", g, voice,
               LAMBDA p :
                   /\ Set(g, p)
                   /\ repeat' = [repeat EXCEPT ![g] = FALSE]
                   /\ UNCHANGED <<shuffle, waiting>>
                   /\ UNCHANGED_globals
                   /\ last' = Did("unloop", g, voice, TRUE,
                                  IF repeat[g] THEN <<>> ELSE <<"This track is not looped">>,
                                  <<>>, <<>>))

\* `current` reads player.current.title: an AttributeError without a track
current_cmd(g) ==
    /\ serves(g)
    /\ \E voice \in env.voices :
        invoke("current", g, voice,
               LAMBDA p : answers("current", g, voice, p,
                                  IF p.current = None
                                  THEN cog_command_error("AttributeError: NoneType has no attribute title")
                                  ELSE <<"embed: Now Playing">>))

\* skip: player.skip() plays the next track
skip(g) ==
    /\ serves(g)
    /\ \E voice \in env.voices :
        invoke("skip", g, voice,
               LAMBDA p :
                   \E p2 \in player_play(p, repeat[g], shuffle[g]) :
                       answers("skip", g, voice, p2, <<>>))

\* queue: with a page past the end the loops leave queuetime unbound
queue_cmd(g) ==
    /\ serves(g)
    /\ \E voice \in env.voices :
        invoke("queue", g, voice,
               LAMBDA p : \E page \in {1, 2} : answers("queue", g, voice, p,
                                  IF p.queue = <<>>
                                  THEN <<"There is nothing in the queue! Why not queue something?">>
                                  ELSE IF (page - 1) * 10 >= Len(p.queue)
                                  THEN cog_command_error("UnboundLocalError: queuetime")
                                  ELSE <<"embed: queue">>))

remove(g) ==
    /\ serves(g)
    /\ \E voice \in env.voices :
        invoke("remove", g, voice,
               LAMBDA p : \E index \in 0..(MaxQueue + 1) :
                   IF p.queue = <<>>
                   THEN answers("remove", g, voice, p, <<"Nothing queued.">>)
                   ELSE IF index > Len(p.queue) \/ index < 1
                   THEN answers("remove", g, voice, p, <<"Index has to be >=1 and <=queue size">>)
                   ELSE answers("remove", g, voice,
                                [p EXCEPT !.queue = RemoveAt(p.queue, index)],
                                <<"Removed from the queue.">>))

shuffle_cmd(g) ==
    /\ serves(g)
    /\ \E voice \in env.voices :
        invoke("shuffle", g, voice,
               LAMBDA p :
                   IF ~is_playing(p)
                   THEN answers("shuffle", g, voice, p, <<"Nothing playing.">>)
                   ELSE /\ Set(g, p)
                        /\ shuffle' = [shuffle EXCEPT ![g] = ~shuffle[g]]
                        /\ UNCHANGED <<repeat, waiting>>
                        /\ UNCHANGED_globals
                        /\ last' = Did("shuffle", g, voice, TRUE,
                                       <<IF shuffle[g] THEN "Shuffle disabled" ELSE "Shuffle enabled">>,
                                       <<>>, <<>>))

\* disconnect: clears the queue, stops the track, leaves the channel
disconnect_cmd(g) ==
    /\ serves(g)
    /\ \E voice \in env.voices :
        invoke("disconnect", g, voice,
               LAMBDA p :
                   IF ~is_connected(p)
                   THEN answers("disconnect", g, voice, p, <<NotConnected>>)
                   ELSE IF voice = None \/ voice # p.channel_id
                   THEN answers("disconnect", g, voice, p, <<"You are not in my voicechannel!">>)
                   ELSE answers("disconnect", g, voice,
                                disconnect([p EXCEPT !.queue = <<>>, !.current = None], TRUE),
                                <<"Disconnected.">>))

\* ---------------------------------------------------------------- playback

\* play: the query after query.strip('<>') and the Spotify lookups
play_query(q, sp) ==
    LET q0 == Strip(q, {"<", ">"})
        found == YTSEARCH \o SpName \o SPACE \o SpArtist
    IN  CASE sp = "track" -> found
          [] sp = "playlist" -> found
          [] sp = "playlist_partial" ->
                 IF ~url_rx_match(found) THEN YTSEARCH \o found ELSE found
          [] OTHER -> IF ~url_rx_match(q0) THEN YTSEARCH \o q0 ELSE q0

\* the test with `not results['tracks']` forgotten
nothing_found_none_only(results) == results = NoResult

\* `not results or not results['tracks']`
nothing_found(results) == results = NoResult \/ results.tracks = <<>>

\* the tracks a result adds: a whole playlist, else the first track
\* (results['tracks'][0] of an empty list is an IndexError: no track)
chosen(results) ==
    IF results.loadType = "PLAYLIST_LOADED" THEN results.tracks
    ELSE IF results.tracks = <<>> THEN <<>>
    ELSE <<results.tracks[1]>>

OffTheList == "IndexError: list index out of range"

enqueued_embed(results) ==
    IF results.loadType = "PLAYLIST_LOADED" THEN "embed: Playlist Enqueued!"
    ELSE "embed: Track Enqueued"

play(g) ==
    /\ serves(g)
    /\ \E voice \in env.voices :
        invoke("play", g, voice,
               LAMBDA p :
                 \E query \in {play_query(q, sp) : q \in env.queries, sp \in env.lookups},
                    results \in env.results :
                   /\ spotify' = "False"
                   /\ UNCHANGED spotifylyrics
                   /\ UNCHANGED_modes
                   /\ IF nothing_found(results)
                      THEN /\ Set(g, p)
                           /\ UNCHANGED lyricstitle
                           /\ recorded' = [recorded EXCEPT ![g].mode = "False"]
                           /\ last' = [Did("play", g, voice, TRUE, <<"Nothing found!">>, <<>>, <<>>)
                                           EXCEPT !.arg = <<results>>]
                      ELSE IF chosen(results) = <<>>
                      THEN /\ Set(g, p)
                           /\ UNCHANGED lyricstitle
                           /\ recorded' = [recorded EXCEPT ![g].mode = "False"]
                           /\ last' = [Did("play", g, voice, TRUE, cog_command_error(OffTheList), <<>>, <<>>)
                                           EXCEPT !.arg = <<results>>]
                      ELSE /\ \E p2 \in enqueue(p, chosen(results), repeat[g], shuffle[g]) :
                                  /\ Len(p2.queue) <= MaxQueue
                                  /\ Set(g, p2)
                           /\ lyricstitle' = Strip(query, Chars(YTSEARCH))
                           /\ recorded' = [recorded EXCEPT ![g].mode = "False",
                                                           ![g].lyricstitle = lyricstitle']
                           /\ last' = [Did("play", g, voice, TRUE, <<enqueued_embed(results)>>, <<>>, <<>>)
                                           EXCEPT !.arg = <<results>>])

MakeSure == "Make sure this user has connected discord with spotify and displays their song as a status."

\* playuser: the loop over member.activities.  acc is the player, the
\* replies so far and the value of spotifylyrics; the loop returns at the
\* first Spotify activity for which nothing is found
RECURSIVE playuser_loop(_, _, _, _)
playuser_loop(g, acts, results, acc) ==
    IF acts = <<>> THEN {acc}
    ELSE LET activity == Head(acts)
             query == activity.title \o SPACE \o activity.artist
             search == IF ~url_rx_match(query) THEN YTSEARCH \o query ELSE query
         IN  IF ~activity.spotify
             THEN playuser_loop(g, Tail(acts), results,
                                [acc EXCEPT !.replies = Append(@, MakeSure)])
             ELSE IF nothing_found(results)
             THEN {[acc EXCEPT !.replies = Append(@, "Nothing found!"),
                               !.spotifylyrics = search]}
             ELSE IF chosen(results) = <<>>
             THEN {[acc EXCEPT !.replies = @ \o cog_command_error(OffTheList),
                               !.spotifylyrics = search]}
             ELSE UNION { playuser_loop(g, Tail(acts), results,
                                        [acc EXCEPT !.p = p2,
                                                    !.replies = Append(@, enqueued_embed(results)),
                                                    !.spotifylyrics = search]) :
                          p2 \in enqueue(acc.p, chosen(results), repeat[g], shuffle[g]) }

playuser(g) ==
    /\ serves(g)
    /\ \E voice \in env.voices :
        invoke("playuser", g, voice,
               LAMBDA p :
                 \E acts \in env.activities, results \in env.results :
                   /\ spotify' = "True"
                   /\ UNCHANGED lyricstitle
                   /\ UNCHANGED_modes
                   /\ \E acc \in playuser_loop(g, acts, results,
                                      [p |-> p, replies |-> <<>>, spotifylyrics |-> spotifylyrics]) :
                          /\ Len(acc.p.queue) <= MaxQueue
                          /\ Set(g, acc.p)
                          /\ spotifylyrics' = acc.spotifylyrics
                          /\ recorded' = [recorded EXCEPT
                                 ![g].mode = "True",
                                 ![g].spotifylyrics =
                                     IF \E i \in 1..Len(acts) : acts[i].spotify
                                     THEN acc.spotifylyrics ELSE @]
                          /\ last' = [Did("playuser", g, voice, TRUE, acc.replies, <<>>, <<>>)
                                          EXCEPT !.arg = IF \E i \in 1..Len(acts) : acts[i].spotify
                                                         THEN <<results>> ELSE <<>>])

\* search_music up to `await self.bot.wait_for('message', check=check)`:
\* results['tracks'] of a None result is a TypeError.  One invocation per
\* guild waits at a time
search_music(g) ==
    /\ serves(g)
    /\ ~waiting[g].active
    /\ \E voice \in env.voices :
        invoke("Search music", g, voice,
               LAMBDA p :
                 \E results \in env.results :
                   /\ Set(g, p)
                   /\ UNCHANGED_globals
                   /\ UNCHANGED <<shuffle, repeat>>
                   /\ IF results = NoResult
                      THEN /\ UNCHANGED waiting
                           /\ last' = Did("Search music", g, voice, TRUE,
                                          cog_command_error("TypeError: NoneType is not subscriptable"),
                                          <<>>, <<>>)
                      ELSE /\ waiting' = [waiting EXCEPT
                                  ![g] = [active |-> TRUE, tracks |-> results.tracks]]
                           /\ last' = Did("Search music", g, voice, TRUE,
                                          <<"embed: Search results">>, <<>>, <<>>))

\* tracks[int(response.content) - 1], with Python indexing: -1 is the last
\* track and an index off the list an IndexError
picked(tracks, content) ==
    LET i == content - 1
    IN  IF i >= 0 /\ i < Len(tracks) THEN <<tracks[i + 1]>>
        ELSE IF i < 0 /\ -i <= Len(tracks) THEN <<tracks[Len(tracks) + i + 1]>>
        ELSE <<>>

\* search_music from the message of the author on: the picked track is
\* added and played if nothing is playing
search_response(g) ==
    /\ serves(g)
    /\ \E content \in 0..3 :
        /\ waiting[g].active
        /\ waiting' = [waiting EXCEPT ![g] = NotWaiting]
        /\ UNCHANGED <<shuffle, repeat>>
        /\ UNCHANGED_globals
        /\ LET track == picked(waiting[g].tracks, content)
           IN  IF track = <<>>
               THEN /\ Set(g, P(g))
                    /\ last' = Did("search_response", g, None, TRUE,
                                   cog_command_error(OffTheList),
                                   <<>>, <<>>)
               ELSE /\ \E p2 \in enqueue(P(g), track, repeat[g], shuffle[g]) :
                           /\ Len(p2.queue) <= MaxQueue
                           /\ Set(g, p2)
                    /\ last' = Did("search_response", g, None, TRUE, <<>>, <<>>, <<>>)

\* the audio node reports the end of the current track: the player plays
\* the next one, or the queue has ended and track_hook disconnects
track_end(g) ==
    /\ serves(g)
    /\ is_playing(P(g))
    /\ \E p2 \in player_play(P(g), repeat[g], shuffle[g]) : Set(g, p2)
    /\ UNCHANGED_modes
    /\ UNCHANGED_globals
    /\ last' = Did("track_end", g, None, FALSE, <<>>, <<>>, <<>>)

\* ---------------------------------------------------- the voice-client adapter

\* on_voice_state_update with the tag of the other handler
state_update_data_mistagged(data) == [t |-> "VOICE_SERVER_UPDATE", d |-> data]

\* lavalink_data of on_voice_server_update and of on_voice_state_update
server_update_data(data) == [t |-> "VOICE_SERVER_UPDATE", d |-> data]
state_update_data(data) == [t |-> "VOICE_STATE_UPDATE", d |-> data]

\* lavalink.voice_update_handler: a state update sets the channel of the
\* player; a server update only concerns the audio node
voice_update_handler(p, lavalink_data) ==
    IF lavalink_data.t = "VOICE_STATE_UPDATE"
    THEN [p EXCEPT !.channel_id = lavalink_data.d.channel_id]
    ELSE p

relay(name, g, lavalink_data) ==
    /\ Set(g, [voice_update_handler(P(g), lavalink_data) EXCEPT !.gateway = Tail(gateway[g])])
    /\ UNCHANGED_modes
    /\ UNCHANGED_globals
    /\ last' = Did(name, g, None, FALSE, <<>>, <<lavalink_data>>, <<>>)

on_voice_server_update(g) ==
    /\ serves(g)
    /\ gateway[g] # <<>>
    /\ Head(gateway[g]).kind = "server"
    /\ relay("on_voice_server_update", g, server_update_data(Head(gateway[g]).data))

on_voice_state_update(g) ==
    /\ serves(g)
    /\ gateway[g] # <<>>
    /\ Head(gateway[g]).kind = "state"
    /\ relay("on_voice_state_update", g, state_update_data(Head(gateway[g]).data))

\* ------------------------------------------------------------------ lyrics

\* the song argument of lyrics; NoSong is the default None
NoSong == <<>>
Songs == {NoSong, <<"h", "e", "y">>}

stopwords ==
    {"(Lyrics)", "Official", "Video", "(Official Video)", "lyrics", " (Audio)",
     "(Official Music Video)"}

\* resultwords: the words of the title that are no stopword
RECURSIVE resultwords(_)
resultwords(lyricwords) ==
    IF lyricwords = <<>> THEN <<>>
    ELSE IF Head(lyricwords) \in stopwords THEN resultwords(Tail(lyricwords))
    ELSE <<Head(lyricwords)>> \o resultwords(Tail(lyricwords))

\* the fallback chain: the first 6, 5, 4, 3 or 2 words of titles, whichever
\* try block first finds all its words; below 2 words every block fails.
\* words is the tuple handed to str.format
fallback(titles) ==
    IF Len(titles) >= 6 THEN [found |-> TRUE, words |-> SubSeq(titles, 1, 6)]
    ELSE IF Len(titles) >= 5 THEN [found |-> TRUE, words |-> SubSeq(titles, 1, 5)]
    ELSE IF Len(titles) >= 4 THEN [found |-> TRUE, words |-> SubSeq(titles, 1, 4)]
    ELSE IF Len(titles) >= 3 THEN [found |-> TRUE, words |-> SubSeq(titles, 1, 3)]
    ELSE IF Len(titles) >= 2 THEN [found |-> TRUE, words |-> SubSeq(titles, 1, 2)]
    ELSE [found |-> FALSE, words |-> <<>>]

NoTitle == "AttributeError: NoneType has no attribute title"
NoLyrics == "AttributeError: NoneType has no attribute lyrics"
LyricsEmbed == "embed: lyrics"
LyricsNotFound == "Lyrics not Found"

\* the body of lyrics from `if song is None` on: the replies and the
\* searches handed to genius.search_song; hit tells whether a search finds
\* the song
lyrics_body(titles, song, hit) ==
    IF song = NoSong
    THEN IF spotify = "unset"
         THEN [replies |-> cog_command_error("NameError: name spotify is not defined"),
               searches |-> <<>>]
         ELSE IF spotify = "True"
         THEN IF spotifylyrics = Unset
              THEN [replies |-> cog_command_error("NameError: name spotifylyrics is not defined"),
                    searches |-> <<>>]
              ELSE [replies |-> IF hit THEN <<LyricsEmbed>> ELSE cog_command_error(NoLyrics),
                    searches |-> <<spotifylyrics>>]
         ELSE IF lyricstitle # Unset /\ hit
              THEN [replies |-> <<LyricsEmbed>>, searches |-> <<lyricstitle>>]
              ELSE [replies |-> IF fallback(titles).found THEN <<>> ELSE <<LyricsNotFound>>,
                    searches |-> IF lyricstitle # Unset THEN <<lyricstitle>> ELSE <<>>]
    ELSE [replies |-> IF hit THEN <<LyricsEmbed>> ELSE cog_command_error(NoLyrics),
          searches |-> <<song>>]

lyrics(g) ==
    /\ serves(g)
    /\ \E voice \in env.voices :
        invoke("lyrics", g, voice,
               LAMBDA p :
                 \E song \in Songs, hit \in BOOLEAN :
                   /\ Set(g, p)
                   /\ UNCHANGED_globals
                   /\ UNCHANGED_modes
                   /\ IF p.current = None
                      THEN last' = [Did("lyrics", g, voice, TRUE, cog_command_error(NoTitle), <<>>, <<>>)
                                        EXCEPT !.arg = song]
                      ELSE LET r == lyrics_body(resultwords(Title(p.current)), song, hit)
                           IN  last' = [Did("lyrics", g, voice, TRUE, r.replies, <<>>, r.searches)
                                            EXCEPT !.arg = song])

\* lyricsuser: a search and an embed for each Spotify activity of the member;
\* a search without a hit ends the command with an AttributeError
RECURSIVE lyricsuser_loop(_, _, _)
lyricsuser_loop(acts, hit, acc) ==
    IF acts = <<>> THEN acc
    ELSE IF ~Head(acts).spotify THEN lyricsuser_loop(Tail(acts), hit, acc)
    ELSE IF ~hit
    THEN [replies |-> acc.replies \o cog_command_error(NoLyrics),
          searches |-> Append(acc.searches, Head(acts).title)]
    ELSE lyricsuser_loop(Tail(acts), hit,
                         [replies |-> Append(acc.replies, LyricsEmbed),
                          searches |-> Append(acc.searches, Head(acts).title)])

lyricsuser(g) ==
    /\ serves(g)
    /\ \E voice \in env.voices :
        invoke("lyricsuser", g, voice,
               LAMBDA p :
                 \E acts \in env.activities, hit \in BOOLEAN :
                   LET r == lyricsuser_loop(acts, hit, [replies |-> <<>>, searches |-> <<>>])
                   IN  /\ Set(g, p)
                       /\ UNCHANGED_globals
                       /\ UNCHANGED_modes
                       /\ last' = Did("lyricsuser", g, voice, TRUE, r.replies, <<>>, r.searches))

\* -------------------------------------------------------------- the system

Command(g) ==
    \/ join(g)
    \/ play(g)
    \/ playuser(g)
    \/ search_music(g)
    \/ pause(g)
    \/ resume(g)
    \/ volume(g)
    \/ loop(g)
    \/ unloop(g)
    \/ current_cmd(g)
    \/ skip(g)
    \/ queue_cmd(g)
    \/ remove(g)
    \/ shuffle_cmd(g)
    \/ lyrics(g)
    \/ lyricsuser(g)
    \/ disconnect_cmd(g)

Event(g) ==
    \/ search_response(g)
    \/ track_end(g)
    \/ on_voice_server_update(g)
    \/ on_voice_state_update(g)

Found == [loadType |-> "SEARCH_RESULT", tracks |-> <<1, 2>>]
Yes == <<"<", "y", "e", "s", ">">>

\* Spec: one guild whose users are in any voice state and use every
\* command; the audio node finds what they ask for
Init ==
    /\ Started
    /\ env = [ guilds |-> {1}, voices |-> VoiceStates, results |-> {Found},
               queries |-> {Yes}, lookups |-> {"none"},
               activities |-> {<<Listening>>} ]

Next == \E g \in AllGuilds : Command(g) \/ Event(g)

Spec == Init /\ [][Next]_vars

\* SpecQueue: one guild whose users sit in voice channel 1; the audio node
\* and the Spotify lookups answer in every way
InitQueue ==
    /\ Started
    /\ env = [ guilds |-> {1}, voices |-> {1}, results |-> Results,
               queries |-> {Yes}, lookups |-> SpOutcomes,
               activities |-> ActivityLists ]

SpecQueue == InitQueue /\ [][Next]_vars

\* SpecLyrics: two guilds whose users sit in voice channel 1 and play and
\* ask for lyrics
InitLyrics ==
    /\ Started
    /\ env = [ guilds |-> AllGuilds, voices |-> {1}, results |-> {Found},
               queries |-> Queries, lookups |-> SpOutcomes,
               activities |-> {<<Listening>>} ]

NextLyrics ==
    \E g \in AllGuilds :
        \/ play(g)
        \/ playuser(g)
        \/ lyrics(g)
        \/ on_voice_server_update(g)
        \/ on_voice_state_update(g)

SpecLyrics == InitLyrics /\ [][NextLyrics]_vars

\* ------------------------------------------------------------------ claims

\* the step just taken ran the before-invoke of a command in guild g
Invoked(g) == last'.cmd \in CommandNames /\ last'.guild = g

\* C1: when the before-invoke check of a command in a guild does not raise
\* (the body runs), the author is in a voice channel and either the player
\* was connected to exactly that channel or the bot has just issued a
\* connect to it
C1_BodyOnlyInSharedChannel ==
    [][\A g \in AllGuilds :
          (Invoked(g) /\ last'.ran) =>
              /\ last'.voice # None
              /\ \/ channel_id[g] = last'.voice
                 \/ /\ channel_id[g] = None
                    /\ voice_client[g] = None
                    /\ voice_client'[g] = last'.voice
                    /\ gateway'[g] = <<StateEvent(last'.voice), ServerEvent>>]_vars

\* a command body ran for an author in channel 2, to which the bot is
\* connected
C1_Witness ==
    /\ last.cmd = "skip" /\ last.ran /\ last.voice = 2
    /\ channel_id[1] = 2 /\ current[1] # None

\* C2 as claimed: not connected and with no connection under way, play,
\* search_music, playuser and join make the bot join the channel of the
\* author unless the permissions are missing, and every other command fails
\* with 'Not connected.' without connecting
Initiating == {"play", "Search music", "playuser", "join"}

C2_InitiatingCommandsJoin ==
    [][\A g \in AllGuilds :
          (Invoked(g) /\ last'.voice # None /\ channel_id[g] = None /\ voice_client[g] = None) =>
              IF last'.cmd \in Initiating
              THEN \/ voice_client'[g] = last'.voice
                   \/ last'.replies = <<NeedPermissions>>
              ELSE /\ last'.replies = <<NotConnected>>
                   /\ ~last'.ran
                   /\ voice_client'[g] = None]_vars

\* C3: a command whose author is in no voice channel is answered 'Join a
\* voicechannel first.', its body does not run, and the voice connection,
\* the queue and the current track stay as they were
C3_NoVoiceNoEffect ==
    [][\A g \in AllGuilds :
          (Invoked(g) /\ last'.voice = None) =>
              /\ ~last'.ran
              /\ last'.replies = <<JoinFirst>>
              /\ channel_id'[g] = channel_id[g]
              /\ voice_client'[g] = voice_client[g]
              /\ gateway'[g] = gateway[g]
              /\ queue'[g] = queue[g]
              /\ current'[g] = current[g]]_vars

\* a command of an author without voice channel was turned away while a
\* track was playing and another one was queued
C3_Witness ==
    /\ last.cmd = "skip" /\ last.voice = None /\ ~last.ran
    /\ channel_id[1] # None /\ current[1] # None /\ queue[1] # <<>>

\* the step just taken is the enqueueing tail of play, playuser or
\* search_music in guild g
Enqueued(g) ==
    /\ last'.guild = g
    /\ last'.ran
    /\ \/ last'.cmd = "search_response" /\ last'.replies = <<>>
       \/ /\ last'.cmd \in {"play", "playuser"}
          /\ \E i \in 1..Len(last'.replies) :
                 last'.replies[i] \in {"embed: Track Enqueued", "embed: Playlist Enqueued!"}

\* C4: enqueueing while a track is playing leaves the current track alone
\* and appends behind the queued tracks (play() is not called); when no
\* track is playing, play() is called and a track becomes current
C4_EnqueueNeverInterrupts ==
    [][\A g \in AllGuilds :
          Enqueued(g) =>
              IF is_playing(P(g))
              THEN /\ current'[g] = current[g]
                   /\ IsPrefix(queue[g], queue'[g])
                   /\ Len(queue'[g]) > Len(queue[g])
              ELSE /\ current'[g] # None
                   /\ Len(queue'[g]) >= Len(queue[g])]_vars

\* a track was enqueued behind a queued one while another was playing
C4_Witness ==
    /\ last.cmd = "play" /\ last.ran /\ last.replies = <<"embed: Track Enqueued">>
    /\ channel_id[1] # None /\ current[1] = 2 /\ queue[1] = <<2, 1>>

\* C5: when the audio node answers None or an empty track list, play and
\* playuser reply 'Nothing found!' last and leave the queue and the current
\* track as they were
C5_NothingFoundNothingQueued ==
    [][\A g \in AllGuilds :
          ( /\ last'.cmd \in {"play", "playuser"}
            /\ last'.guild = g
            /\ last'.ran
            /\ last'.arg # <<>>
            /\ (last'.arg[1] = NoResult \/ last'.arg[1].tracks = <<>>) ) =>
              /\ last'.replies # <<>>
              /\ last'.replies[Len(last'.replies)] = "Nothing found!"
              /\ queue'[g] = queue[g]
              /\ current'[g] = current[g]]_vars

\* playuser got an empty track list from the audio node while a track was
\* playing and another was queued
C5_Witness ==
    /\ last.cmd = "playuser" /\ last.ran
    /\ last.arg = <<[loadType |-> "NO_MATCHES", tracks |-> <<>>]>>
    /\ current[1] # None /\ queue[1] # <<>>

\* C6: each voice event the adapter receives is handed to
\* voice_update_handler exactly once, with its data unmodified and the tag
\* of its kind, and leaves the events in flight
C6_RelayExactlyOnce ==
    [][\A g \in AllGuilds :
          /\ (last'.cmd = "on_voice_server_update" /\ last'.guild = g) =>
                 /\ gateway[g] # <<>>
                 /\ Head(gateway[g]).kind = "server"
                 /\ last'.calls = <<[t |-> "VOICE_SERVER_UPDATE", d |-> Head(gateway[g]).data]>>
                 /\ gateway'[g] = Tail(gateway[g])
          /\ (last'.cmd = "on_voice_state_update" /\ last'.guild = g) =>
                 /\ gateway[g] # <<>>
                 /\ Head(gateway[g]).kind = "state"
                 /\ last'.calls = <<[t |-> "VOICE_STATE_UPDATE", d |-> Head(gateway[g]).data]>>
                 /\ gateway'[g] = Tail(gateway[g])]_vars

\* a state update for channel 2 was relayed and connected the player
C6_Witness ==
    /\ last.cmd = "on_voice_state_update"
    /\ last.calls = <<[t |-> "VOICE_STATE_UPDATE", d |-> [channel_id |-> 2, endpoint |-> ""]]>>
    /\ channel_id[1] = 2

\* C7 as claimed: a lyrics command without song in guild g reads the mode
\* and the queries that the last play or playuser of guild g stored, and
\* the mode is set
C7_LyricsKeyedByGuild ==
    \A g \in AllGuilds :
        (last.cmd = "lyrics" /\ last.guild = g /\ last.ran /\ last.arg = NoSong
            /\ current[g] # None) =>
            /\ spotify # "unset"
            /\ spotify = recorded[g].mode
            /\ lyricstitle = recorded[g].lyricstitle
            /\ spotifylyrics = recorded[g].spotifylyrics

\* C8 as claimed: a lyrics command without song in non-spotify mode, with a
\* track playing, sends exactly one reply: the lyrics or 'Lyrics not Found'
C8_LyricsAlwaysReplies ==
    \A g \in AllGuilds :
        (last.cmd = "lyrics" /\ last.guild = g /\ last.ran /\ last.arg = NoSong
            /\ spotify = "False" /\ current[g] # None) =>
            /\ Len(last.replies) = 1
            /\ last.replies[1] \in {LyricsEmbed, LyricsNotFound}

====
